---- MODULE Spec2Model ----
(***************************************************************************)
(* Merkle-Mountain-Range (arber): the append-only engine of src/src/mmr.rs *)
(* over the VecStore of src/src/store.rs, the position algebra of          *)
(* src/src/utils.rs and the proof verifier of src/src/proof.rs.            *)
(*                                                                         *)
(* Hashes are modelled symbolically.  A byte string is a sequence of       *)
(* integers 0..255.  The 32-byte Blake2b digest of a byte string m is the  *)
(* bracketed sequence <<HashOpen>> \o m \o <<HashClose>>: an injective     *)
(* function of m (the hash is taken as collision-free), which is itself a  *)
(* sequence of integers and so can be fed to a further digest.             *)
(***************************************************************************)
EXTENDS Integers, Sequences, FiniteSets, TLC

(* ---------------------------- bounds ----------------------------------- *)

\* number of leaves appended to an MMR grown from empty
MaxLeaves == 7
\* number of leaves in a store that is handed to MerkleMountainRange::new
MaxNewLeaves == 2
\* number of leaves of an MMR whose proofs are handed to MerkleProof::verify
MaxVerifyLeaves == 3

\* the leaf elements (Vec<u8>) that are appended
Elems == {<<0>>, <<1>>}

(* ---------------------------- hash domain ------------------------------ *)

HashOpen == 0 - 1
HashClose == 0 - 2

\* Hash::LEN
HashLen == 32

ZERO_HASH == [i \in 1..HashLen |-> 0]

\* Blake2b::new(); update(m); finalize(); Hash::from_vec
Blake2b(m) == <<HashOpen>> \o m \o <<HashClose>>

RECURSIVE to_le_bytes(_, _)
to_le_bytes(n, w) ==
    IF w = 0 THEN <<>> ELSE <<n % 256>> \o to_le_bytes(n \div 256, w - 1)

\* SCALE encoding of a Vec<u8> shorter than 64 bytes: compact length, bytes
encode(elem) == <<4 * Len(elem)>> \o elem

\* impl Hashable for Vec<u8>
hash_vec(v) == Blake2b(v)

\* impl Hashable for (A, B) with A = B = Hash (Hash::hash is the identity)
\* a pair hash that forgets its second half
hash_pair_first(a, b) == Blake2b(a)

hash_pair(a, b) == Blake2b(a \o b)

hash_with_index(idx, hash) == Blake2b(to_le_bytes(idx, 8) \o hash)

\* hash_with_index(u64::MAX, hash): the index 0 - 1 without overflow checks
hash_with_index_max(hash) == Blake2b([i \in 1..8 |-> 255] \o hash)

(* ---------------------------- results ---------------------------------- *)

Ok(v) == [ok |-> TRUE, val |-> v]

Error(kind, n, a, b) == [kind |-> kind, n |-> n, a |-> a, b |-> b]

Err(e) == [ok |-> FALSE, err |-> e]

ExpectingLeafNode(pos) == Error("ExpectingLeafNode", pos, <<>>, <<>>)
InvalidNodeHash(idx, stored, expected) == Error("InvalidNodeHash", idx, stored, expected)
InvalidNodeHeight(h) == Error("InvalidNodeHeight", h, <<>>, <<>>)
InvalidRootHash(got, root) == Error("InvalidRootHash", 0, got, root)
MissingRootNode == Error("MissingRootNode", 0, <<>>, <<>>)
\* Error::Store(format!("missing hash at: {}", idx))
StoreError(idx) == Error("Store", idx, <<>>, <<>>)
\* u64 subtraction below zero: a panic with overflow checks
Overflow == Error("Overflow", 0, <<>>, <<>>)

(* ---------------------------- position algebra ------------------------- *)

RECURSIVE Pow2(_)
Pow2(k) == IF k = 0 THEN 1 ELSE 2 * Pow2(k - 1)

RECURSIVE BitLen(_)
BitLen(x) == IF x = 0 THEN 0 ELSE 1 + BitLen(x \div 2)

\* ALL_ONES >> x.leading_zeros(), for x > 0
AllOnesShr(x) == Pow2(BitLen(x)) - 1

RECURSIVE BitAnd(_, _)
BitAnd(a, b) ==
    IF a = 0 \/ b = 0 THEN 0
    ELSE (IF a % 2 = 1 /\ b % 2 = 1 THEN 1 ELSE 0) + 2 * BitAnd(a \div 2, b \div 2)

saturating_sub(a, b) == IF a >= b THEN a - b ELSE 0

\* a peaks loop that does not look at the nodes left over
RECURSIVE peaks_loop_unchecked(_, _, _, _)
peaks_loop_unchecked(peak_idx, nodes_left, prev_peak_idx, acc) ==
    IF peak_idx = 0 THEN acc
    ELSE IF nodes_left >= peak_idx
         THEN peaks_loop_unchecked(peak_idx \div 2, nodes_left - peak_idx,
                                   prev_peak_idx + peak_idx,
                                   Append(acc, prev_peak_idx + peak_idx))
         ELSE peaks_loop_unchecked(peak_idx \div 2, nodes_left, prev_peak_idx, acc)

RECURSIVE peaks_loop(_, _, _, _)
peaks_loop(peak_idx, nodes_left, prev_peak_idx, acc) ==
    IF peak_idx = 0
    THEN IF nodes_left > 0 THEN <<>> ELSE acc
    ELSE IF nodes_left >= peak_idx
         THEN peaks_loop(peak_idx \div 2, nodes_left - peak_idx,
                         prev_peak_idx + peak_idx,
                         Append(acc, prev_peak_idx + peak_idx))
         ELSE peaks_loop(peak_idx \div 2, nodes_left, prev_peak_idx, acc)

peaks(size) ==
    IF size = 0 THEN <<>> ELSE peaks_loop(AllOnesShr(size), size, 0, <<>>)

RECURSIVE node_height_loop(_, _)
node_height_loop(peak_idx, idx) ==
    IF peak_idx = 0 THEN idx
    ELSE node_height_loop(peak_idx \div 2,
                          IF idx >= peak_idx THEN idx - peak_idx ELSE idx)

node_height(pos) ==
    LET idx == saturating_sub(pos, 1)
    IN  IF idx = 0 THEN 0 ELSE node_height_loop(AllOnesShr(idx), idx)

is_leaf(pos) == node_height(pos) = 0

\* a peak_height_map loop that shifts the map only when it sets a bit
RECURSIVE peak_height_map_loop_unshifted(_, _, _)
peak_height_map_loop_unshifted(peak_idx, idx, peak_map) ==
    IF peak_idx = 0 THEN <<peak_map, idx>>
    ELSE IF idx >= peak_idx
         THEN peak_height_map_loop_unshifted(peak_idx \div 2, idx - peak_idx,
                                             2 * peak_map + 1)
         ELSE peak_height_map_loop_unshifted(peak_idx \div 2, idx, peak_map)

RECURSIVE peak_height_map_loop(_, _, _)
peak_height_map_loop(peak_idx, idx, peak_map) ==
    IF peak_idx = 0 THEN <<peak_map, idx>>
    ELSE IF idx >= peak_idx
         THEN peak_height_map_loop(peak_idx \div 2, idx - peak_idx, 2 * peak_map + 1)
         ELSE peak_height_map_loop(peak_idx \div 2, idx, 2 * peak_map)

\* a peak_height_map that reports the height alone, over an empty map
peak_height_map_mapless(idx) ==
    IF idx = 0 THEN <<0, 0>> ELSE <<0, peak_height_map_loop(AllOnesShr(idx), idx, 0)[2]>>

peak_height_map(idx) ==
    IF idx = 0 THEN <<0, 0>> ELSE peak_height_map_loop(AllOnesShr(idx), idx, 0)

RECURSIVE family_path_loop(_, _, _, _, _)
family_path_loop(peak_map, parent_height, node_pos, end_pos, path) ==
    IF ~(node_pos < end_pos) THEN path
    ELSE LET right == BitAnd(peak_map, parent_height) # 0
             next_pos == IF right THEN node_pos + 1 ELSE node_pos + 2 * parent_height
             sibling == IF right THEN next_pos - 2 * parent_height ELSE next_pos - 1
         IN  IF next_pos > end_pos THEN path
             ELSE family_path_loop(peak_map, 2 * parent_height, next_pos, end_pos,
                                   Append(path, <<next_pos, sibling>>))

family_path(pos, end_pos) ==
    LET phm == peak_height_map(saturating_sub(pos, 1))
    IN  family_path_loop(phm[1], Pow2(phm[2]), pos, end_pos, <<>>)

\* pos >= 1; the callers handle pos = 0, where pos - 1 leaves u64
is_left(pos) ==
    LET phm == peak_height_map(pos - 1)
    IN  BitAnd(phm[1], Pow2(phm[2])) = 0

\* pos >= 1; the callers handle pos = 0, where pos - 1 leaves u64
family(pos) ==
    LET phm == peak_height_map(pos - 1)
        peak == Pow2(phm[2])
    IN  IF BitAnd(phm[1], peak) # 0
        THEN <<pos + 1, pos + 1 - 2 * peak>>
        ELSE <<pos + 2 * peak, pos + 2 * peak - 1>>

(* ---------------------------- store ------------------------------------ *)

\* VecStore::new
VecStore_new == [data |-> <<>>, hashes |-> <<>>]

\* VecStore::append
\* a store that keeps the last of the hashes it is handed
store_append_last(store, elem, hs) ==
    [data |-> Append(store.data, elem), hashes |-> Append(store.hashes, hs[Len(hs)])]

\* a store that puts the new hashes in front of the ones it holds
store_append_front(store, elem, hs) ==
    [data |-> Append(store.data, elem), hashes |-> hs \o store.hashes]

store_append(store, elem, hs) ==
    [data |-> Append(store.data, elem), hashes |-> store.hashes \o hs]

\* VecStore::hash_at
hash_at(store, idx) ==
    IF idx < Len(store.hashes) THEN Ok(store.hashes[idx + 1]) ELSE Err(StoreError(idx))

(* ---------------------------- MMR engine ------------------------------- *)

\* MerkleMountainRange::new
MerkleMountainRange_new(size, store) == [size |-> size, store |-> store]

\* MerkleMountainRange::hash
mmr_hash(self, pos) == hash_at(self.store, saturating_sub(pos, 1))

\* a leaf hash that leaves the SCALE encoding out
leaf_node_hash_raw(idx, elem) == hash_with_index(idx, hash_vec(elem))

\* append: hash_with_index(idx, &elem.encode().hash())
leaf_node_hash(idx, elem) == hash_with_index(idx, hash_vec(encode(elem)))

\* a parent hash that takes its children in the wrong order
next_peak_hash_swapped(idx, left_hash, peak_hash) ==
    hash_with_index(idx, hash_pair(peak_hash, left_hash))

\* bag_the_peaks: peak_hash = (left_hash, peak_hash).hash(), then hash_with_index(idx, ..)
next_peak_hash(idx, left_hash, peak_hash) ==
    hash_with_index(idx, hash_pair(left_hash, peak_hash))

\* the while loop of bag_the_peaks; st = [idx, new, height, merkle_path, peak_hash]
RECURSIVE bag_the_peaks_loop(_, _, _)
bag_the_peaks_loop(self, peak_map, st) ==
    IF BitAnd(peak_map, st.height) = 0
    THEN Ok(<<st.new, st.merkle_path>>)
    ELSE IF st.idx + 1 < 2 * st.height THEN Err(Overflow)
    ELSE LET left_idx == st.idx + 1 - 2 * st.height
             left_hash == hash_at(self.store, left_idx)
         IN  IF ~left_hash.ok THEN left_hash
             ELSE LET idx == st.idx + 1
                      peak_hash == next_peak_hash(idx, left_hash.val, st.peak_hash)
                  IN  bag_the_peaks_loop(self, peak_map,
                          [idx |-> idx, new |-> st.new + 1, height |-> 2 * st.height,
                           merkle_path |-> Append(st.merkle_path, peak_hash),
                           peak_hash |-> peak_hash])

\* a bag_the_peaks that never merges a peak
bag_the_peaks_unmerged(self, node_hash, peak_map) == Ok(<<1, <<node_hash>>>>)

bag_the_peaks(self, node_hash, peak_map) ==
    bag_the_peaks_loop(self, peak_map,
        [idx |-> self.size, new |-> 1, height |-> 1,
         merkle_path |-> <<node_hash>>, peak_hash |-> node_hash])

\* an append that counts the new leaf only, not the parents it completes
mmr_append_one_node(self, elem) ==
    LET idx == self.size
        node_hash == leaf_node_hash(idx, elem)
        phm == peak_height_map(idx)
        bagged == bag_the_peaks(self, node_hash, phm[1])
    IN  IF phm[2] # 0 THEN <<self, Err(InvalidNodeHeight(phm[2]))>>
        ELSE IF ~bagged.ok THEN <<self, bagged>>
        ELSE <<[size |-> self.size + 1,
                store |-> store_append(self.store, elem, bagged.val[2])],
               Ok(self.size + 1)>>

\* an append that commits the leaf before it bags the peaks
mmr_append_eager(self, elem) ==
    LET idx == self.size
        node_hash == leaf_node_hash(idx, elem)
        phm == peak_height_map(idx)
        bagged == bag_the_peaks(self, node_hash, phm[1])
        leaf_stored == [size |-> self.size,
                        store |-> store_append(self.store, elem, <<node_hash>>)]
    IN  IF phm[2] # 0 THEN <<self, Err(InvalidNodeHeight(phm[2]))>>
        ELSE IF ~bagged.ok THEN <<leaf_stored, bagged>>
        ELSE LET size == self.size + bagged.val[1]
             IN  <<[size |-> size,
                    store |-> store_append(self.store, elem, bagged.val[2])],
                   Ok(size)>>

\* MerkleMountainRange::append: <<the MMR afterwards, the result>>
mmr_append(self, elem) ==
    LET idx == self.size
        node_hash == leaf_node_hash(idx, elem)
        phm == peak_height_map(idx)
        bagged == bag_the_peaks(self, node_hash, phm[1])
    IN  IF phm[2] # 0 THEN <<self, Err(InvalidNodeHeight(phm[2]))>>
        ELSE IF ~bagged.ok THEN <<self, bagged>>
        ELSE LET size == self.size + bagged.val[1]
             IN  <<[size |-> size,
                    store |-> store_append(self.store, elem, bagged.val[2])],
                   Ok(size)>>

\* the body of the for loop of validate, from position pos on
RECURSIVE validate_loop(_, _)
validate_loop(self, pos) ==
    IF pos > self.size THEN Ok(TRUE)
    ELSE LET height == node_height(saturating_sub(pos, 1))
             idx == pos - 1
         IN  IF height > 0
             THEN IF idx < Pow2(height) THEN Err(Overflow)
                  ELSE LET left_hash == hash_at(self.store, idx - Pow2(height))
                           right_hash == hash_at(self.store, idx - 1)
                           parent_hash == hash_at(self.store, idx)
                       IN  IF ~left_hash.ok THEN left_hash
                           ELSE IF ~right_hash.ok THEN right_hash
                           ELSE IF ~parent_hash.ok THEN parent_hash
                           ELSE LET tmp == hash_with_index(idx,
                                               hash_pair(left_hash.val, right_hash.val))
                                IN  IF tmp # parent_hash.val
                                    THEN Err(InvalidNodeHash(idx, parent_hash.val, tmp))
                                    ELSE validate_loop(self, pos + 1)
             ELSE validate_loop(self, pos + 1)

mmr_validate(self) == validate_loop(self, 1)

\* the hashes of the positions of ps that the store holds: filter_map(|x| self.hash(x).ok())
RECURSIVE hashes_ok(_, _)
hashes_ok(self, ps) ==
    IF ps = <<>> THEN <<>>
    ELSE LET h == mmr_hash(self, Head(ps))
         IN  (IF h.ok THEN <<h.val>> ELSE <<>>) \o hashes_ok(self, Tail(ps))

\* a fold that pairs the accumulator before the peak
RECURSIVE bag_fold_swapped(_, _)
bag_fold_swapped(size, hs) ==
    IF Len(hs) = 1 THEN hs[1]
    ELSE hash_with_index(size, hash_pair(bag_fold_swapped(size, Tail(hs)), hs[1]))

\* the fold of bag_lower_peaks and of root over the hashes hs, given leftmost
\* first and folded from the right
RECURSIVE bag_fold(_, _)
bag_fold(size, hs) ==
    IF Len(hs) = 1 THEN hs[1]
    ELSE hash_with_index(size, hash_pair(hs[1], bag_fold(size, Tail(hs))))

\* Option<Hash>: <<>> is None, <<h>> is Some(h)
bag_lower_peaks(self, pos) ==
    LET hs == hashes_ok(self, SelectSeq(peaks(self.size), LAMBDA x : x > pos))
    IN  IF hs = <<>> THEN <<>> ELSE <<bag_fold(self.size, hs)>>

Reverse(s) == [i \in 1..Len(s) |-> s[Len(s) + 1 - i]]

\* a peak path that is left in the order it was collected in
peak_path_unreversed(self, pos) ==
    LET lower == bag_lower_peaks(self, pos)
        path == hashes_ok(self, SelectSeq(peaks(self.size), LAMBDA n : n < pos))
    IN  path \o lower

\* MerkleMountainRange::peak_path
peak_path(self, pos) ==
    LET lower == bag_lower_peaks(self, pos)
        path == hashes_ok(self, SelectSeq(peaks(self.size), LAMBDA n : n < pos))
    IN  Reverse(path \o lower)

Seconds(fp) == [i \in 1..Len(fp) |-> fp[i][2]]

MerkleProof(mmr_size, path) == [mmr_size |-> mmr_size, path |-> path]

\* MerkleProof::new
MerkleProof_new == MerkleProof(0, <<>>)

\* a proof that does not look its own node up
mmr_proof_unchecked(self, pos) ==
    IF ~is_leaf(saturating_sub(pos, 1)) THEN Err(ExpectingLeafNode(pos))
    ELSE LET fp == family_path(pos, self.size)
             path == hashes_ok(self, Seconds(fp))
             peak == IF fp # <<>> THEN fp[Len(fp)][1] ELSE pos
         IN  Ok(MerkleProof(self.size, path \o peak_path(self, peak)))

\* MerkleMountainRange::proof
mmr_proof(self, pos) ==
    IF ~is_leaf(saturating_sub(pos, 1)) THEN Err(ExpectingLeafNode(pos))
    ELSE IF ~mmr_hash(self, pos).ok THEN mmr_hash(self, pos)
    ELSE LET fp == family_path(pos, self.size)
             path == hashes_ok(self, Seconds(fp))
             peak == IF fp # <<>> THEN fp[Len(fp)][1] ELSE pos
         IN  Ok(MerkleProof(self.size, path \o peak_path(self, peak)))

\* MerkleMountainRange::partial_proof
mmr_partial_proof(self, pos, size) ==
    IF ~is_leaf(pos) THEN Err(ExpectingLeafNode(pos))
    ELSE IF ~mmr_hash(self, pos).ok THEN mmr_hash(self, pos)
    ELSE LET fp == family_path(pos, size)
             path == hashes_ok(self, Seconds(fp))
             peak == IF fp # <<>> THEN fp[Len(fp)][1] ELSE pos
         IN  Ok(MerkleProof(size,
                 IF peak < size THEN path \o peak_path(self, peak) ELSE path))

\* the for loop of MerkleMountainRange::peaks
RECURSIVE mmr_peaks_loop(_, _, _)
mmr_peaks_loop(self, ps, hs) ==
    IF ps = <<>> THEN Ok(hs)
    ELSE LET h == hash_at(self.store, saturating_sub(Head(ps), 1))
         IN  IF ~h.ok THEN h ELSE mmr_peaks_loop(self, Tail(ps), Append(hs, h.val))

\* a peaks that skips the peaks whose hash the store does not hold
mmr_peaks_lenient(self) == Ok(hashes_ok(self, peaks(self.size)))

\* MerkleMountainRange::peaks
mmr_peaks(self) == mmr_peaks_loop(self, peaks(self.size), <<>>)

\* a root that is the highest peak, without bagging
mmr_root_first_peak(self) ==
    IF self.size = 0 THEN Ok(ZERO_HASH)
    ELSE LET ps == mmr_peaks(self)
         IN  IF ~ps.ok THEN ps
             ELSE IF ps.val = <<>> THEN Err(MissingRootNode)
             ELSE Ok(ps.val[1])

\* MerkleMountainRange::root
mmr_root(self) ==
    IF self.size = 0 THEN Ok(ZERO_HASH)
    ELSE LET ps == mmr_peaks(self)
         IN  IF ~ps.ok THEN ps
             ELSE IF ps.val = <<>> THEN Err(MissingRootNode)
             ELSE Ok(bag_fold(self.size, ps.val))

(* ---------------------------- proof verifier --------------------------- *)

\* peaks.binary_search(&pos): 0 when pos is no peak, else its 1-based place
binary_search(ps, pos) ==
    IF \E i \in 1..Len(ps) : ps[i] = pos
    THEN CHOOSE i \in 1..Len(ps) : ps[i] = pos
    ELSE 0

\* a panic: pos - 1 with pos = 0 under overflow checks
Panic == Err(Overflow)

\* utils::family(pos); pos = 0 (without overflow checks) reads
\* peak_height_map(u64::MAX) = (1 << 63, 0)
family_wrapping(pos) == IF pos = 0 THEN <<2, 1>> ELSE family(pos)

\* MerkleProof::verify and do_verify, which call each other; elem_hash is
\* elem.hash(), checks says whether the build checks arithmetic overflow
RECURSIVE do_verify(_, _, _, _, _)
do_verify(self, root, elem_hash, pos, checks) ==
    IF pos = 0 /\ checks THEN Panic
    ELSE LET hash == IF pos > self.mmr_size
                     THEN hash_with_index(self.mmr_size, elem_hash)
                     ELSE IF pos = 0 THEN hash_with_index_max(elem_hash)
                     ELSE hash_with_index(pos - 1, elem_hash)
         IN  IF self.path = <<>>
             THEN IF root = hash THEN Ok(TRUE) ELSE Err(InvalidRootHash(hash, root))
             ELSE LET sibling == Head(self.path)
                      rest == MerkleProof(self.mmr_size, Tail(self.path))
                      fam == family_wrapping(pos)
                      ps == peaks(self.mmr_size)
                      x == binary_search(ps, pos)
                      parent ==
                          IF x # 0
                          THEN IF x = Len(ps) THEN hash_pair(sibling, hash)
                               ELSE hash_pair(hash, sibling)
                          ELSE IF fam[1] > self.mmr_size THEN hash_pair(sibling, hash)
                          ELSE IF is_left(fam[2]) THEN hash_pair(sibling, hash)
                               ELSE hash_pair(hash, sibling)
                  IN  do_verify(rest, root, parent, fam[1], checks)

\* a verify that reports a mismatch as Ok(false)
verify_false(self, root, elem, pos, checks) ==
    LET r == do_verify(self, root, hash_vec(elem), pos, checks)
    IN  IF ~r.ok /\ r.err.kind = "InvalidRootHash" THEN Ok(FALSE) ELSE r

\* MerkleProof::verify for a leaf element (a Vec<u8>)
verify(self, root, elem, pos, checks) ==
    do_verify(self, root, hash_vec(elem), pos, checks)

(* ---------------------------- state machine ---------------------------- *)

\* The MMR that self was when it had size nodes.  VecStore::append only extends
\* the hash log, so that MMR held the first size hashes of self.
mmr_at(self, size) ==
    MerkleMountainRange_new(size,
        [data |-> self.store.data, hashes |-> SubSeq(self.store.hashes, 1, size)])

VARIABLES
    mmr,      \* the MerkleMountainRange: [size, store]
    grown,    \* TRUE while mmr was built from new(0, VecStore::new()) by appends alone
    leaves,   \* position |-> the element whose append put a leaf there
    history,  \* the sizes mmr had before each successful append
    last      \* the last call: [op, args, res]

vars == <<mmr, grown, leaves, history, last>>

Call(op, args, res) == [op |-> op, args |-> args, res |-> res]

Init ==
    /\ mmr = MerkleMountainRange_new(0, VecStore_new)
    /\ grown = TRUE
    /\ leaves = <<>>
    /\ history = {}
    /\ last = Call("new", <<0>>, Ok(TRUE))

AppendElem(elem) ==
    /\ Len(mmr.store.data) < (IF grown THEN MaxLeaves ELSE MaxNewLeaves + 1)
    /\ LET r == mmr_append(mmr, elem)
       IN  /\ mmr' = r[1]
           /\ last' = Call("append", <<elem>>, r[2])
           /\ leaves' = IF r[2].ok THEN leaves @@ (mmr.size + 1 :> elem) ELSE leaves
           /\ history' = IF r[2].ok THEN history \cup {mmr.size} ELSE history
    /\ UNCHANGED grown

\* MerkleMountainRange::new(size, store) over the store populated so far
New(size) ==
    /\ grown
    /\ Len(mmr.store.data) <= MaxNewLeaves
    /\ mmr' = MerkleMountainRange_new(size, mmr.store)
    /\ grown' = FALSE
    /\ history' = {}
    /\ last' = Call("new", <<size>>, Ok(TRUE))
    /\ UNCHANGED leaves

\* The caller of the model observes the MMR after it has changed it: a read-only
\* call is made right after new or append (it leaves the MMR as it is, so a later
\* call returns the same), and verify is called on a proof a call returned.
AfterMutation == last.op \in {"new", "append"}

Validate ==
    /\ AfterMutation
    /\ last' = Call("validate", <<>>, mmr_validate(mmr))
    /\ UNCHANGED <<mmr, grown, leaves, history>>

Proof(pos) ==
    /\ AfterMutation
    /\ last' = Call("proof", <<pos>>, mmr_proof(mmr, pos))
    /\ UNCHANGED <<mmr, grown, leaves, history>>

PartialProof(pos, size) ==
    /\ AfterMutation
    /\ last' = Call("partial_proof", <<pos, size>>, mmr_partial_proof(mmr, pos, size))
    /\ UNCHANGED <<mmr, grown, leaves, history>>

Hash(pos) ==
    /\ AfterMutation
    /\ last' = Call("hash", <<pos>>, mmr_hash(mmr, pos))
    /\ UNCHANGED <<mmr, grown, leaves, history>>

Peaks ==
    /\ AfterMutation
    /\ last' = Call("peaks", <<>>, mmr_peaks(mmr))
    /\ UNCHANGED <<mmr, grown, leaves, history>>

Root ==
    /\ AfterMutation
    /\ last' = Call("root", <<>>, mmr_root(mmr))
    /\ UNCHANGED <<mmr, grown, leaves, history>>

\* the byte strings handed to verify as elem: the elements and their encodings
VerifyElems == Elems \cup {encode(e) : e \in Elems}

\* the roots handed to verify: the current root, and ZERO_HASH
VerifyRoots == {ZERO_HASH} \cup (IF mmr_root(mmr).ok THEN {mmr_root(mmr).val} ELSE {})

\* whether the build checks arithmetic overflow matters for pos = 0 alone
Builds(pos) == IF pos = 0 THEN BOOLEAN ELSE {TRUE}

\* proof.verify(root, elem, pos) on the proof the last call returned
Verify(root, elem, pos, checks) ==
    /\ Len(mmr.store.data) <= MaxVerifyLeaves
    /\ last.op = "proof"
    /\ last.res.ok
    /\ last' = Call("verify", <<last.res.val, root, elem, pos, checks>>,
                    verify(last.res.val, root, elem, pos, checks))
    /\ UNCHANGED <<mmr, grown, leaves, history>>

\* MerkleProof::default().verify(root, elem, pos)
VerifyDefault(root, elem, pos, checks) ==
    /\ Len(mmr.store.data) <= MaxVerifyLeaves
    /\ AfterMutation
    /\ last' = Call("verify", <<MerkleProof_new, root, elem, pos, checks>>,
                    verify(MerkleProof_new, root, elem, pos, checks))
    /\ UNCHANGED <<mmr, grown, leaves, history>>

\* the snapshot sizes asked of partial_proof: the sizes the MMR had, and its size
SnapshotSizes == history \cup {mmr.size}

Positions == 0..(mmr.size + 1)

Next ==
    \/ \E elem \in Elems : AppendElem(elem)
    \/ \E size \in 0..(Len(mmr.store.hashes) + 1) : New(size)
    \/ Validate
    \/ \E pos \in Positions : Proof(pos)
    \/ \E pos \in Positions, size \in SnapshotSizes : PartialProof(pos, size)
    \/ \E pos \in Positions : Hash(pos)
    \/ Peaks
    \/ Root
    \/ \E root \in VerifyRoots, elem \in VerifyElems, pos \in Positions :
           \E checks \in Builds(pos) : Verify(root, elem, pos, checks)
    \/ \E root \in VerifyRoots, elem \in VerifyElems, pos \in Positions :
           \E checks \in Builds(pos) : VerifyDefault(root, elem, pos, checks)

Spec == Init /\ [][Next]_vars

(* ---------------------------- tampered store --------------------------- *)

MaxTamperLeaves == 3

\* the values a stored hash is overwritten with
TamperValues == {ZERO_HASH, hash_vec(<<255>>)}

\* mmr.store.hashes[idx] = value
tamper(self, idx, value) ==
    [self EXCEPT !.store.hashes[idx + 1] = value]

\* One stored hash of an MMR grown from empty is overwritten.  The call record
\* keeps the index, the hash that was there and the root the MMR had.
Tamper(idx, value) ==
    /\ grown
    /\ last.op = "append"
    /\ last.res.ok
    /\ Len(mmr.store.data) <= MaxTamperLeaves
    /\ mmr.store.hashes[idx + 1] # value
    /\ mmr' = tamper(mmr, idx, value)
    /\ grown' = FALSE
    /\ last' = Call("tamper", <<idx, mmr.store.hashes[idx + 1], mmr_root(mmr).val>>,
                    Ok(TRUE))
    /\ UNCHANGED <<leaves, history>>

\* proof(pos) on the tampered MMR, verified for elem against the root the MMR had
\* before; the result of proof when it fails, and the result of verify otherwise
TamperedVerify(pos, elem) ==
    /\ last.op = "tamper"
    /\ LET proof == mmr_proof(mmr, pos)
       IN  last' = Call("tampered_verify",
                        <<last.args[1], last.args[2], last.args[3], pos, elem>>,
                        IF proof.ok
                        THEN verify(proof.val, last.args[3], elem, pos, TRUE)
                        ELSE proof)
    /\ UNCHANGED <<mmr, grown, leaves, history>>

TamperNext ==
    \/ \E elem \in Elems : AppendElem(elem)
    \/ \E idx \in 0..(Len(mmr.store.hashes) - 1), value \in TamperValues :
           Tamper(idx, value)
    \/ \E pos \in DOMAIN leaves, elem \in VerifyElems : TamperedVerify(pos, elem)

TamperSpec == Init /\ [][TamperNext]_vars

(* ---------------------------- position algebra ------------------------- *)

\* The functions of utils.rs are pure: a behaviour makes one call of one of them,
\* after the initial state, and records its arguments and its result.
MaxSize == 127

\* utils::peaks(size), called on its own
UtilsPeaks(size) ==
    /\ last.op = "new"
    /\ last' = Call("utils::peaks", <<size>>, peaks(size))
    /\ UNCHANGED <<mmr, grown, leaves, history>>

\* utils::peak_height_map(idx), called on its own
UtilsPeakHeightMap(idx) ==
    /\ last.op = "new"
    /\ last' = Call("utils::peak_height_map", <<idx>>, peak_height_map(idx))
    /\ UNCHANGED <<mmr, grown, leaves, history>>

\* utils::node_height(idx) and utils::is_leaf(idx), called on their own
UtilsNodeHeight(idx) ==
    /\ last.op = "new"
    /\ last' = Call("utils::node_height", <<idx>>, <<node_height(idx), is_leaf(idx)>>)
    /\ UNCHANGED <<mmr, grown, leaves, history>>

\* utils::family(pos) and utils::is_left(pos), called on their own
UtilsFamily(pos) ==
    /\ last.op = "new"
    /\ last' = Call("utils::family", <<pos>>, <<family(pos), is_left(pos)>>)
    /\ UNCHANGED <<mmr, grown, leaves, history>>

\* the positions and end positions family_path is called with
MaxPos == 16
MaxEndPos == 31

\* utils::family_path(pos, end_pos), called on its own
UtilsFamilyPath(pos, end_pos) ==
    /\ last.op = "new"
    /\ last' = Call("utils::family_path", <<pos, end_pos>>, family_path(pos, end_pos))
    /\ UNCHANGED <<mmr, grown, leaves, history>>

UtilsNext ==
    \/ \E size \in 0..MaxSize : UtilsPeaks(size)
    \/ \E idx \in 0..MaxSize : UtilsPeakHeightMap(idx)
    \/ \E idx \in 0..MaxSize : UtilsNodeHeight(idx)
    \/ \E pos \in 1..MaxSize : UtilsFamily(pos)
    \/ \E pos \in 0..MaxPos, end_pos \in 0..MaxEndPos : UtilsFamilyPath(pos, end_pos)

UtilsSpec == Init /\ [][UtilsNext]_vars

(* ---------------------------- proof encoding --------------------------- *)

MaxPathLen == 2

\* digests as the 32 bytes they are, for the byte encoding of a proof
ByteHashes == {ZERO_HASH, [i \in 1..HashLen |-> 255], [i \in 1..HashLen |-> i]}

\* the sizes of the encoded proofs: one to four significant bytes
ProofSizes == {0, 1, 19, 255, 256, 65535, 65536, 16777216}

RECURSIVE PathsOfLen(_)
PathsOfLen(n) ==
    IF n = 0 THEN {<<>>}
    ELSE {Append(path, h) : path \in PathsOfLen(n - 1), h \in ByteHashes}

ProofPaths == UNION {PathsOfLen(n) : n \in 0..MaxPathLen}

RECURSIVE from_le_bytes(_)
from_le_bytes(bytes) ==
    IF bytes = <<>> THEN 0 ELSE Head(bytes) + 256 * from_le_bytes(Tail(bytes))

\* Compact<u32>, the length prefix of a Vec: one byte below 64, two below 2^14
encode_compact(n) ==
    IF n < 64 THEN <<4 * n>> ELSE to_le_bytes(4 * n + 1, 2)

RECURSIVE Flatten(_)
Flatten(seqs) == IF seqs = <<>> THEN <<>> ELSE Head(seqs) \o Flatten(Tail(seqs))

\* MerkleProof::encode, derived: the fields in order, mmr_size as a fixed u64,
\* path as a Vec of 32-byte arrays
encode_proof(proof) ==
    to_le_bytes(proof.mmr_size, 8) \o encode_compact(Len(proof.path))
        \o Flatten(proof.path)

CodecError == Error("Codec", 0, <<>>, <<>>)

\* a compact length that is read without its mode bits being shifted out
decode_compact_unshifted(bytes) ==
    IF bytes = <<>> THEN Err(CodecError)
    ELSE Ok(<<Head(bytes), Tail(bytes)>>)

\* Compact<u32>::decode: <<the length, the bytes after it>>
decode_compact(bytes) ==
    IF bytes = <<>> THEN Err(CodecError)
    ELSE IF Head(bytes) % 4 = 0 THEN Ok(<<Head(bytes) \div 4, Tail(bytes)>>)
    ELSE IF Head(bytes) % 4 = 1 /\ Len(bytes) >= 2
    THEN Ok(<<from_le_bytes(SubSeq(bytes, 1, 2)) \div 4, SubSeq(bytes, 3, Len(bytes))>>)
    ELSE Err(CodecError)

\* n arrays of 32 bytes from the front of bytes: <<the arrays, the bytes after>>
RECURSIVE decode_hashes(_, _, _)
decode_hashes(n, bytes, acc) ==
    IF n = 0 THEN Ok(<<acc, bytes>>)
    ELSE IF Len(bytes) < HashLen THEN Err(CodecError)
    ELSE decode_hashes(n - 1, SubSeq(bytes, HashLen + 1, Len(bytes)),
                       Append(acc, SubSeq(bytes, 1, HashLen)))

\* MerkleProof::decode_all, derived: the fields in order, no byte left over
decode_all(bytes) ==
    IF Len(bytes) < 8 THEN Err(CodecError)
    ELSE LET mmr_size == from_le_bytes(SubSeq(bytes, 1, 8))
             len == decode_compact(SubSeq(bytes, 9, Len(bytes)))
         IN  IF ~len.ok THEN len
             ELSE LET path == decode_hashes(len.val[1], len.val[2], <<>>)
                  IN  IF ~path.ok THEN path
                      ELSE IF path.val[2] # <<>> THEN Err(CodecError)
                      ELSE Ok(MerkleProof(mmr_size, path.val[1]))

\* proof.encode() followed by MerkleProof::decode_all, once in a behaviour
EncodeDecode(proof) ==
    /\ last.op = "new"
    /\ last' = Call("encode_decode", <<proof, encode_proof(proof)>>,
                    decode_all(encode_proof(proof)))
    /\ UNCHANGED <<mmr, grown, leaves, history>>

CodecNext ==
    \E mmr_size \in ProofSizes, path \in ProofPaths :
        EncodeDecode(MerkleProof(mmr_size, path))

CodecSpec == Init /\ [][CodecNext]_vars

(* ---------------------------- properties ------------------------------- *)

\* The height of the node at position pos >= 1 in the post-order numbering: the
\* perfect tree on positions offset + 1 .. offset + 2^k - 1 has its root, of
\* height k - 1, last, after its left and its right subtree.
RECURSIVE HeightIn(_, _, _)
HeightIn(pos, offset, k) ==
    IF pos = offset + Pow2(k) - 1 THEN k - 1
    ELSE IF pos <= offset + Pow2(k - 1) - 1 THEN HeightIn(pos, offset, k - 1)
    ELSE HeightIn(pos, offset + Pow2(k - 1) - 1, k - 1)

PostOrderHeight(pos) == HeightIn(pos, 0, BitLen(pos))

\* the positions at which the appends so far put a leaf
LeafPositions == DOMAIN leaves

RECURSIVE TrailingOnes(_)
TrailingOnes(m) == IF m % 2 = 1 THEN 1 + TrailingOnes(m \div 2) ELSE 0

\* this step is a successful append
AppendOk == last'.op = "append" /\ last'.res.ok /\ mmr' # mmr

\* C1: on an MMR grown from empty by appends, proof(p) succeeds for every leaf
\* position p <= size, and the proof it returns verifies against root() with the
\* element that was appended at p: verify returns Ok(true).
C1_ProofVerifies ==
    grown =>
        /\ (last.op = "proof" /\ last.args[1] \in LeafPositions) => last.res.ok
        /\ ( /\ last.op = "verify"
             /\ last.args[4] \in LeafPositions
             /\ mmr_proof(mmr, last.args[4]).ok
             /\ last.args[1] = mmr_proof(mmr, last.args[4]).val
             /\ mmr_root(mmr).ok
             /\ last.args[2] = mmr_root(mmr).val
             /\ last.args[3] = leaves[last.args[4]] )
           => (last.res.ok /\ last.res.val)

\* C2: on an MMR that has grown past a stable size s, partial_proof(p, s) returns
\* exactly the MerkleProof that proof(p) returned when the MMR had size s, for
\* every leaf position p <= s.
C2_PartialProofIsSnapshotProof ==
    ( /\ grown
      /\ last.op = "partial_proof"
      /\ last.args[2] \in history
      /\ peaks(last.args[2]) # <<>>
      /\ last.args[1] \in LeafPositions
      /\ last.args[1] <= last.args[2]
      /\ mmr_proof(mmr_at(mmr, last.args[2]), last.args[1]).ok )
    => /\ last.res.ok
       /\ last.res.val = mmr_proof(mmr_at(mmr, last.args[2]), last.args[1]).val

\* C3: after any sequence of successful appends starting from an empty MMR,
\* validate() returns Ok(true).
C3_ValidateOk ==
    (grown /\ last.op = "validate") => (last.res.ok /\ last.res.val)

\* C4: on an MMR grown from empty, every inner node at position p with height
\* h >= 1 stores hash_with_index(p - 1, H(hashes[p - 1 - 2^h], hashes[p - 2])):
\* the hash of its left and right child hashes, tagged with its own index.
C4_InnerNodeHashes ==
    grown =>
        \A p \in 1..mmr.size :
            LET h == PostOrderHeight(p)
            IN  h >= 1 =>
                    mmr.store.hashes[p] =
                        Blake2b(to_le_bytes(p - 1, 8)
                                \o Blake2b(mmr.store.hashes[p - Pow2(h)]
                                           \o mmr.store.hashes[p - 1]))

C4_Witness ==
    /\ grown
    /\ last.op = "append"
    /\ last.res.ok
    /\ \E p \in 1..mmr.size : PostOrderHeight(p) = 2

\* C5: every successful append on an MMR of size s returns the new size, which
\* is s + 1 + t, t the number of trailing set bits of the peak map at index s;
\* size strictly increases, and is 1, 3, 4 after one, two, three appends.
C5_AppendSize ==
    [][AppendOk =>
          /\ mmr'.size = mmr.size + 1 + TrailingOnes(peak_height_map(mmr.size)[1])
          /\ last'.res.val = mmr'.size
          /\ mmr'.size > mmr.size
          /\ (grown /\ Len(mmr'.store.data) = 1) => mmr'.size = 1
          /\ (grown /\ Len(mmr'.store.data) = 2) => mmr'.size = 3
          /\ (grown /\ Len(mmr'.store.data) = 3) => mmr'.size = 4]_vars

C5_Witness ==
    /\ last.op = "append"
    /\ last.res.ok
    /\ last.res.val = 7
    /\ mmr.size = 7
    /\ Len(mmr.store.data) = 4

\* C6 as stated: a successful append(elem) on an MMR of size s stores
\* hash_with_index(s, H(encode(elem))) at store index s, so that hash(s + 1)
\* returns it afterwards.
C6_LeafHashAtSize ==
    [][AppendOk =>
          LET h == mmr_hash(mmr', mmr.size + 1)
          IN  /\ h.ok
              /\ h.val = Blake2b(to_le_bytes(mmr.size, 8)
                                 \o Blake2b(encode(last'.args[1])))]_vars

\* C6 amended: the same, for an MMR of size s whose store holds exactly s hashes,
\* as every MMR grown from empty does.
C6_LeafHashAtSizeOfDenseStore ==
    [][(AppendOk /\ Len(mmr.store.hashes) = mmr.size) =>
          LET h == mmr_hash(mmr', mmr.size + 1)
          IN  /\ h.ok
              /\ h.val = Blake2b(to_le_bytes(mmr.size, 8)
                                 \o Blake2b(encode(last'.args[1])))]_vars

C6_Witness ==
    /\ grown
    /\ last.op = "append"
    /\ last.res.ok
    /\ \E p \in LeafPositions :
           /\ p > 1
           /\ mmr_hash(mmr, p).val = Blake2b(to_le_bytes(p - 1, 8)
                                             \o Blake2b(encode(last.args[1])))
           /\ Len(mmr.store.hashes) = mmr.size

\* the fold of the claim: acc := Pk, then acc := hash_with_index(size, H(Pi, acc))
\* for i = k - 1 down to 1
RECURSIVE RightToLeft(_, _, _, _)
RightToLeft(size, P, i, acc) ==
    IF i = 0 THEN acc
    ELSE RightToLeft(size, P, i - 1,
                     Blake2b(to_le_bytes(size, 8) \o Blake2b(P[i] \o acc)))

\* C7: root() returns ZERO_HASH when size = 0; otherwise the right-to-left fold
\* of the peak hashes P1..Pk, each step tagged with size (a single peak is
\* returned untagged); MissingRootNode when size > 0 and there is no peak.
C7_Root ==
    last.op = "root" =>
        LET ps == peaks(mmr.size)
            P == [i \in 1..Len(ps) |-> mmr.store.hashes[ps[i]]]
        IN  /\ mmr.size = 0 => (last.res.ok /\ last.res.val = ZERO_HASH)
            /\ (mmr.size > 0 /\ ps = <<>>) =>
                   (~last.res.ok /\ last.res.err = MissingRootNode)
            /\ (ps # <<>> /\ \A i \in 1..Len(ps) : ps[i] <= Len(mmr.store.hashes)) =>
                   /\ last.res.ok
                   /\ last.res.val = RightToLeft(mmr.size, P, Len(P) - 1, P[Len(P)])

C7_Witness ==
    /\ last.op = "root"
    /\ last.res.ok
    /\ Len(peaks(mmr.size)) = 3

\* C8: for every successful append on an MMR grown from empty, root() after the
\* append differs from root() before it.
C8_RootChanges ==
    [][(grown /\ AppendOk) =>
          /\ mmr_root(mmr).ok
          /\ mmr_root(mmr').ok
          /\ mmr_root(mmr').val # mmr_root(mmr).val]_vars

C8_Witness ==
    /\ grown
    /\ last.op = "append"
    /\ last.res.ok
    /\ Len(peaks(mmr.size)) = 3

\* C9: proof(pos) returns Err(ExpectingLeafNode(pos)) for every position pos that
\* is an inner node (height >= 1), and never returns that error for a leaf
\* position.
C9_ExpectingLeafNode ==
    (last.op = "proof" /\ last.args[1] >= 1) =>
        ( (~last.res.ok /\ last.res.err = ExpectingLeafNode(last.args[1]))
          <=> PostOrderHeight(last.args[1]) >= 1 )

\* a node of height h is a left child when the node 2^(h+1) positions after it,
\* its parent then, is one level higher (a right child's parent is the next node)
IsLeftChild(pos) ==
    PostOrderHeight(pos + Pow2(PostOrderHeight(pos) + 1)) = PostOrderHeight(pos) + 1

\* the hash verify reconstructs: the leaf hash of (elem, pos), then one parent
\* per hash of the path, paired by side and tagged min(parent_pos - 1, mmr_size);
\* position 0 wraps to index u64::MAX in a build without overflow checks
RECURSIVE Reconstructed(_, _, _, _)
Reconstructed(mmr_size, path, hash, pos) ==
    IF path = <<>> THEN hash
    ELSE LET fam == IF pos = 0 THEN <<2, 1>> ELSE family(pos)
             ps == peaks(mmr_size)
             is_peak == \E i \in 1..Len(ps) : ps[i] = pos
             sibling_first ==
                 IF is_peak THEN pos = ps[Len(ps)]
                 ELSE IF fam[1] > mmr_size THEN TRUE
                 ELSE IsLeftChild(fam[2])
             pair == IF sibling_first THEN Head(path) \o hash ELSE hash \o Head(path)
             tag == IF fam[1] - 1 < mmr_size THEN fam[1] - 1 ELSE mmr_size
         IN  Reconstructed(mmr_size, Tail(path),
                           Blake2b(to_le_bytes(tag, 8) \o Blake2b(pair)), fam[1])

ReconstructedFrom(proof, elem, pos) ==
    Reconstructed(proof.mmr_size, proof.path,
                  IF pos > proof.mmr_size
                  THEN Blake2b(to_le_bytes(proof.mmr_size, 8) \o Blake2b(elem))
                  ELSE IF pos = 0
                  THEN Blake2b([i \in 1..8 |-> 255] \o Blake2b(elem))
                  ELSE Blake2b(to_le_bytes(pos - 1, 8) \o Blake2b(elem)),
                  pos)

\* C10: verify never returns Ok(false): whenever it returns, it returns Ok(true)
\* if the hash reconstructed from elem, pos and the path equals root, and
\* Err(InvalidRootHash(reconstructed, root)) otherwise.  (pos = 0 in a build with
\* overflow checks does not return.)
C10_VerifyResult ==
    last.op = "verify" =>
        LET got == ReconstructedFrom(last.args[1], last.args[3], last.args[4])
        IN  /\ last.res.ok => last.res.val
            /\ ~(last.args[4] = 0 /\ last.args[5]) =>
                   IF got = last.args[2]
                   THEN last.res.ok /\ last.res.val
                   ELSE ~last.res.ok /\ last.res.err = InvalidRootHash(got, last.args[2])

C10_Witness ==
    /\ last.op = "verify"
    /\ ~last.res.ok
    /\ last.res.err.kind = "InvalidRootHash"
    /\ Len(last.args[1].path) >= 2
    /\ last.res.err.b = last.args[2]
    /\ last.res.err.a # last.args[2]

\* the hashes one append adds at index idx and after: the leaf hash, then for every
\* trailing set bit of peak_map the parent of the peak to the left and the hash
\* before it
RECURSIVE Committed(_, _, _, _, _)
Committed(hashes, idx, peak_map, height, hash) ==
    IF peak_map % 2 = 0 THEN <<hash>>
    ELSE <<hash>> \o
         Committed(hashes, idx + 1, peak_map \div 2, 2 * height,
                   Blake2b(to_le_bytes(idx + 1, 8)
                           \o Blake2b(hashes[idx + 2 - 2 * height] \o hash)))

\* C11: append is atomic: when it returns an error (InvalidNodeHeight, a missing
\* left peak hash) size, the hash log and the data log are as before the call;
\* when it succeeds the leaf hash and every merged parent hash are appended to
\* the hash log, the element to the data log, and size grows by their number.
C11_AppendAtomic ==
    [][last'.op = "append" =>
          IF last'.res.ok
          THEN LET new == Committed(mmr.store.hashes, mmr.size,
                                    peak_height_map(mmr.size)[1], 1,
                                    Blake2b(to_le_bytes(mmr.size, 8)
                                            \o Blake2b(encode(last'.args[1]))))
               IN  /\ mmr'.store.hashes = mmr.store.hashes \o new
                   /\ mmr'.store.data = Append(mmr.store.data, last'.args[1])
                   /\ mmr'.size = mmr.size + Len(new)
          ELSE /\ last'.res.err.kind \in {"InvalidNodeHeight", "Store"}
               /\ mmr' = mmr]_vars

C11_Witness ==
    /\ last.op = "append"
    /\ ~last.res.ok
    /\ last.res.err.kind = "Store"
    /\ mmr.size > Len(mmr.store.hashes)

\* a position whose hash the store does not hold
Missing(pos) == pos = 0 \/ pos > Len(mmr.store.hashes)

\* some sibling on the family path from pos up to size is missing from the store
SiblingMissing(pos, size) ==
    \E i \in 1..Len(family_path(pos, size)) : Missing(family_path(pos, size)[i][2])

\* the peak the family path from pos ends at
PathPeak(pos, size) ==
    IF family_path(pos, size) = <<>> THEN pos
    ELSE family_path(pos, size)[Len(family_path(pos, size))][1]

\* some peak other than the one above pos is missing from the store
OtherPeakMissing(pos) ==
    \E i \in 1..Len(peaks(mmr.size)) :
        /\ peaks(mmr.size)[i] # PathPeak(pos, mmr.size)
        /\ Missing(peaks(mmr.size)[i])

\* C12: proof(pos) and partial_proof(pos, size) return an error, and never Ok
\* with a shortened path, whenever a sibling hash on the family path or a peak
\* hash needed for the peak path is missing from the store.
C12_StoreErrorsSurface ==
    /\ (last.op = "proof"
        /\ last.args[1] \in LeafPositions
        /\ (SiblingMissing(last.args[1], mmr.size) \/ OtherPeakMissing(last.args[1])))
       => ~last.res.ok
    /\ (last.op = "partial_proof"
        /\ last.args[1] \in LeafPositions
        /\ SiblingMissing(last.args[1], last.args[2]))
       => ~last.res.ok

\* the MMR before the hash at index last.args[1] was overwritten
Untampered == tamper(mmr, last.args[1], last.args[2])

\* the proof of pos holds the tampered hash or a hash derived from it
PathDepends(pos) ==
    /\ mmr_proof(Untampered, pos).ok
    /\ mmr_proof(mmr, pos).ok
    /\ mmr_proof(mmr, pos).val # mmr_proof(Untampered, pos).val

\* elem is the element appended at pos, as appended or in its encoding
ElementAt(pos, elem) == elem = leaves[pos] \/ elem = encode(leaves[pos])

MaxEmptyPos == 16

EmptyMMR == mmr.size = 0 /\ mmr.store.hashes = <<>>

\* C15: on an empty MMR (size 0, empty store) root() returns ZERO_HASH, peaks()
\* returns the empty list, and proof(pos) returns an error for every position,
\* pos = 0 and pos = 1 included.
C15_EmptyMMR ==
    EmptyMMR =>
        /\ last.op = "root" => (last.res.ok /\ last.res.val = ZERO_HASH)
        /\ last.op = "peaks" => (last.res.ok /\ last.res.val = <<>>)
        /\ last.op = "proof" =>
               /\ ~last.res.ok
               /\ \A pos \in 0..MaxEmptyPos : ~mmr_proof(mmr, pos).ok

C15_Witness ==
    /\ EmptyMMR
    /\ last.op = "proof"
    /\ last.args[1] = 1
    /\ ~last.res.ok
    /\ last.res.err.kind = "Store"

RECURSIVE PopCount(_)
PopCount(n) == IF n = 0 THEN 0 ELSE (n % 2) + PopCount(n \div 2)

\* C16: peaks() returns the stored hashes at the positions peaks(size), the
\* leftmost and tallest peak first, one per set bit of the number of leaves
\* appended (positions 15, 18, 19 after 11 appends); when the hash of one of these
\* positions is missing the call fails instead of returning a shorter list.
C16_Peaks ==
    last.op = "peaks" =>
        LET ps == peaks(mmr.size)
        IN  /\ IF \E i \in 1..Len(ps) : ps[i] > Len(mmr.store.hashes)
               THEN ~last.res.ok /\ last.res.err.kind = "Store"
               ELSE /\ last.res.ok
                    /\ last.res.val = [i \in 1..Len(ps) |-> mmr.store.hashes[ps[i]]]
                    /\ \A i \in 1..(Len(ps) - 1) :
                           PostOrderHeight(ps[i]) > PostOrderHeight(ps[i + 1])
            /\ grown => (last.res.ok /\ Len(last.res.val) = PopCount(Len(mmr.store.data)))
            /\ peaks(2 * 11 - PopCount(11)) = <<15, 18, 19>>

C16_Witness ==
    /\ last.op = "peaks"
    /\ last.res.ok
    /\ Len(last.res.val) = 3
    /\ last.res.val[1] # last.res.val[3]

\* the size of the perfect binary tree of height k
TreeSize(k) == Pow2(k + 1) - 1

\* size is a sum of tree sizes of distinct heights, none above k
RECURSIVE SumOfTrees(_, _)
SumOfTrees(size, k) ==
    IF size = 0 THEN TRUE
    ELSE IF k < 0 THEN FALSE
    ELSE \/ SumOfTrees(size, k - 1)
         \/ (size >= TreeSize(k) /\ SumOfTrees(size - TreeSize(k), k - 1))

ValidSize(size) == size > 0 /\ SumOfTrees(size, BitLen(size))

RECURSIVE SumTreeSizes(_)
SumTreeSizes(ps) ==
    IF ps = <<>> THEN 0
    ELSE TreeSize(PostOrderHeight(Head(ps))) + SumTreeSizes(Tail(ps))

\* C17: peaks(size) is non-empty exactly when size is a sum of perfect tree sizes
\* 2^(k+1) - 1 of strictly decreasing k; then the positions strictly increase,
\* the peak heights strictly decrease, the trees add up to size and the last
\* position is size; every other size (0, 2, 5, 6, 9, ...) gives the empty list.
C17_PeaksOfSize ==
    last.op = "utils::peaks" =>
        LET size == last.args[1]
            ps == last.res
        IN  /\ ps # <<>> <=> ValidSize(size)
            /\ size \in {0, 2, 5, 6, 9} => ps = <<>>
            /\ ps # <<>> =>
                   /\ \A i \in 1..(Len(ps) - 1) :
                          /\ ps[i] < ps[i + 1]
                          /\ PostOrderHeight(ps[i]) > PostOrderHeight(ps[i + 1])
                   /\ SumTreeSizes(ps) = size
                   /\ ps[Len(ps)] = size

C17_Witness ==
    /\ last.op = "utils::peaks"
    /\ last.args[1] = 19
    /\ last.res = <<15, 18, 19>>

\* C18: encoding a MerkleProof and decoding the bytes returns an equal
\* MerkleProof, the same mmr_size and the same path, the default {0, []}
\* included; the decoded proof verifies as the original does.
C18_EncodeDecode ==
    last.op = "encode_decode" =>
        /\ last.res.ok
        /\ last.res.val.mmr_size = last.args[1].mmr_size
        /\ last.res.val.path = last.args[1].path
        /\ Len(last.args[2]) = 9 + HashLen * Len(last.args[1].path)
        /\ \A elem \in Elems, pos \in 1..2 :
               verify(last.res.val, ZERO_HASH, elem, pos, TRUE)
                   = verify(last.args[1], ZERO_HASH, elem, pos, TRUE)

C18_Witness ==
    /\ last.op = "encode_decode"
    /\ last.args[1].mmr_size = 256
    /\ Len(last.args[1].path) = 2
    /\ last.args[1].path[1] # last.args[1].path[2]
    /\ last.res.ok
    /\ last.res.val = last.args[1]

\* the hash an inner node at position pos is to hold, given the stored hashes
ExpectedInner(pos) ==
    Blake2b(to_le_bytes(pos - 1, 8)
            \o Blake2b(mmr.store.hashes[pos - Pow2(PostOrderHeight(pos))]
                       \o mmr.store.hashes[pos - 1]))

\* the inner positions whose stored hash is not the hash of their children
Mismatches ==
    {pos \in 1..mmr.size :
        PostOrderHeight(pos) >= 1 /\ mmr.store.hashes[pos] # ExpectedInner(pos)}

Lowest(S) == CHOOSE x \in S : \A y \in S : x <= y

\* C19: on a store holding at least size hashes, validate() returns Ok(true) if
\* and only if every inner node among the positions 1..size holds
\* hash_with_index(idx, H(left, right)); otherwise it returns
\* InvalidNodeHash(idx, stored, expected) for the lowest mismatching index idx,
\* which is never the index of a leaf.
C19_ValidateResult ==
    (last.op = "validate" /\ Len(mmr.store.hashes) >= mmr.size) =>
        IF Mismatches = {}
        THEN last.res.ok /\ last.res.val
        ELSE /\ ~last.res.ok
             /\ last.res.err = InvalidNodeHash(Lowest(Mismatches) - 1,
                                               mmr.store.hashes[Lowest(Mismatches)],
                                               ExpectedInner(Lowest(Mismatches)))

\* the elements appended, in the order of their positions
RECURSIVE InOrder(_)
InOrder(ps) ==
    IF ps = {} THEN <<>>
    ELSE <<leaves[Lowest(ps)]>> \o InOrder(ps \ {Lowest(ps)})

\* C20: after N successful appends from an empty MMR over an empty VecStore,
\* size equals the number of hashes in the store and equals 2N - popcount(N),
\* hence is at most 2N - 1, and the data log holds the N appended elements in
\* the order of their appends.
C20_SizeAndLogs ==
    grown =>
        LET N == Cardinality(history)
        IN  /\ mmr.size = Len(mmr.store.hashes)
            /\ mmr.size = 2 * N - PopCount(N)
            /\ N >= 1 => mmr.size <= 2 * N - 1
            /\ Len(mmr.store.data) = N
            /\ mmr.store.data = InOrder(LeafPositions)

C20_Witness ==
    /\ grown
    /\ last.op = "append"
    /\ Cardinality(history) = 7
    /\ mmr.size = 11
    /\ mmr.store.data[1] # mmr.store.data[7]

\* the stored hashes of the positions ps, in the order of ps
RECURSIVE StoredHashes(_)
StoredHashes(ps) ==
    IF ps = <<>> THEN <<>>
    ELSE (IF Missing(Head(ps)) THEN <<>> ELSE <<mmr.store.hashes[Head(ps)]>>)
         \o StoredHashes(Tail(ps))

\* the path proof(pos) is to return: the sibling hashes from the leaf upwards,
\* the bag of the peaks to the right of the leaf's peak, if any, folded from the
\* right, and the peaks to its left from the nearest to the leftmost
ExpectedProofPath(pos) ==
    LET siblings == [i \in 1..Len(family_path(pos, mmr.size)) |->
                         family_path(pos, mmr.size)[i][2]]
        peak == PathPeak(pos, mmr.size)
        lower == StoredHashes(SelectSeq(peaks(mmr.size), LAMBDA x : x > peak))
        higher == StoredHashes(SelectSeq(peaks(mmr.size), LAMBDA x : x < peak))
        bag == IF lower = <<>> THEN <<>>
               ELSE <<RightToLeft(mmr.size, lower, Len(lower) - 1, lower[Len(lower)])>>
    IN  StoredHashes(siblings) \o bag
            \o [i \in 1..Len(higher) |-> higher[Len(higher) + 1 - i]]

IsPrefix(s, t) == Len(s) <= Len(t) /\ SubSeq(t, 1, Len(s)) = s

\* C22: the store is append-only under the engine: a successful append leaves
\* every hash and data element stored before as it was and extends both logs at
\* the end; proof, partial_proof, root, peaks, validate and hash change nothing.
C22_AppendOnly ==
    [][/\ (last'.op = "append" /\ last'.res.ok) =>
              /\ IsPrefix(mmr.store.hashes, mmr'.store.hashes)
              /\ IsPrefix(mmr.store.data, mmr'.store.data)
              /\ Len(mmr'.store.hashes) > Len(mmr.store.hashes)
              /\ Len(mmr'.store.data) = Len(mmr.store.data) + 1
              /\ \A i \in 0..(Len(mmr.store.hashes) - 1) :
                     hash_at(mmr'.store, i) = hash_at(mmr.store, i)
       /\ last'.op \in {"proof", "partial_proof", "root", "peaks", "validate", "hash"}
              => mmr' = mmr]_vars

C22_Witness ==
    /\ last.op = "append"
    /\ last.res.ok
    /\ Len(mmr.store.hashes) >= 7
    /\ Len(mmr.store.data) >= 4

\* C23: every size reached from the empty MMR by successful appends is stable:
\* peaks(size) is non-empty for size > 0 and the node at index size has height
\* 0, so append never fails there with InvalidNodeHeight and root never with
\* MissingRootNode; InvalidNodeHeight(h) is returned only by an MMR made by
\* new(size, store) whose next index has height h # 0.
C23_StableSizes ==
    /\ grown =>
           /\ mmr.size > 0 => peaks(mmr.size) # <<>>
           /\ PostOrderHeight(mmr.size + 1) = 0
           /\ peak_height_map(mmr.size)[2] = 0
           /\ \A elem \in Elems :
                  LET r == mmr_append(mmr, elem)[2]
                  IN  r.ok \/ r.err.kind # "InvalidNodeHeight"
           /\ LET r == mmr_root(mmr) IN r.ok \/ r.err # MissingRootNode
           /\ last.op = "append" => last.res.ok
           /\ last.op = "root" => last.res.ok
    /\ (last.op = "append" /\ ~last.res.ok /\ last.res.err.kind = "InvalidNodeHeight") =>
           /\ ~grown
           /\ last.res.err = InvalidNodeHeight(PostOrderHeight(mmr.size + 1))
           /\ PostOrderHeight(mmr.size + 1) # 0

C23_Witness ==
    /\ grown
    /\ last.op = "append"
    /\ last.res.ok
    /\ mmr.size = 11
    /\ Len(peaks(mmr.size)) = 3

\* bit k of the bitmap m
Bit(m, k) == (m \div Pow2(k)) % 2 = 1

\* C24: for every stable size idx, peak_height_map(idx) is (m, 0) where bit k of
\* m is set exactly when the MMR with idx nodes has a peak of height k (0 gives
\* (0, 0), 4 gives (0b11, 0), 18 gives (0b1010, 0)); for every idx the second
\* component is the height at which the node at 0-based index idx lands.
C24_PeakHeightMap ==
    last.op = "utils::peak_height_map" =>
        LET idx == last.args[1]
            m == last.res[1]
            ps == peaks(idx)
        IN  /\ last.res[2] = PostOrderHeight(idx + 1)
            /\ (idx = 0 \/ ValidSize(idx)) =>
                   /\ last.res[2] = 0
                   /\ 2 * m - PopCount(m) = idx
                   /\ \A k \in 0..BitLen(idx) :
                          Bit(m, k) <=> \E i \in 1..Len(ps) : PostOrderHeight(ps[i]) = k
            /\ idx = 0 => last.res = <<0, 0>>
            /\ idx = 4 => last.res = <<3, 0>>
            /\ idx = 18 => last.res = <<10, 0>>

C24_Witness ==
    /\ last.op = "utils::peak_height_map"
    /\ last.args[1] = 18
    /\ last.res = <<10, 0>>

\* C25: node_height(idx) is the post-order height of the node at 0-based index
\* idx, that is of position idx + 1: node_height(2) = 1, node_height(3) = 0,
\* node_height(6) = 2, node_height(30) = 4; is_leaf(idx) holds exactly when it
\* is 0.
C25_NodeHeight ==
    last.op = "utils::node_height" =>
        LET idx == last.args[1]
        IN  /\ last.res[1] = PostOrderHeight(idx + 1)
            /\ last.res[2] <=> (PostOrderHeight(idx + 1) = 0)
            /\ idx = 2 => last.res[1] = 1
            /\ idx = 3 => last.res[1] = 0
            /\ idx = 6 => last.res[1] = 2
            /\ idx = 30 => last.res[1] = 4

\* C26: for every position pos >= 1 of height h, family(pos) is (parent,
\* sibling) = (pos + 1, pos + 1 - 2^(h+1)) when pos is a right child and
\* (pos + 2^(h+1), pos + 2^(h+1) - 1) when it is a left child: the parent and
\* the other child of that parent in the post-order tree, so family(sibling) =
\* (parent, pos); is_left(pos) holds exactly when pos < sibling.
C26_Family ==
    last.op = "utils::family" =>
        LET pos == last.args[1]
            h == PostOrderHeight(pos)
            parent == last.res[1][1]
            sibling == last.res[1][2]
        IN  /\ last.res[1] = IF IsLeftChild(pos)
                             THEN <<pos + Pow2(h + 1), pos + Pow2(h + 1) - 1>>
                             ELSE <<pos + 1, pos + 1 - Pow2(h + 1)>>
            /\ sibling >= 1
            /\ PostOrderHeight(parent) = h + 1
            /\ PostOrderHeight(sibling) = h
            /\ parent = 1 + (IF pos > sibling THEN pos ELSE sibling)
            /\ family(sibling) = <<parent, pos>>
            /\ last.res[2] <=> pos < sibling
            /\ last.res[2] <=> IsLeftChild(pos)
            /\ pos <= 15 => (last.res[2] <=> pos \in {1, 3, 4, 7, 8, 10, 11, 15})

C26_Witness ==
    /\ last.op = "utils::family"
    /\ last.args[1] = 14
    /\ last.res = <<<<15, 7>>, FALSE>>

\* the parent and the sibling of pos >= 1 in the post-order tree
ParentAndSibling(pos) ==
    LET span == Pow2(PostOrderHeight(pos) + 1)
    IN  IF IsLeftChild(pos) THEN <<pos + span, pos + span - 1>>
        ELSE <<pos + 1, pos + 1 - span>>

\* the steps from pos to its parent, grandparent and so on whose parent is <= end_pos
RECURSIVE Walk(_, _)
Walk(pos, end_pos) ==
    LET step == ParentAndSibling(pos)
    IN  IF step[1] > end_pos THEN <<>> ELSE <<step>> \o Walk(step[1], end_pos)

\* C27: family_path(pos, end_pos) is the successive (parent, sibling) pairs of
\* the walk from pos to its parent, grandparent and so on, keeping exactly the
\* steps whose parent is <= end_pos (family_path(8, 15) = [(10, 9), (14, 13),
\* (15, 7)]); it is the empty path whenever pos >= end_pos or pos = 0, for every
\* end_pos.
C27_FamilyPath ==
    last.op = "utils::family_path" =>
        LET pos == last.args[1]
            end_pos == last.args[2]
        IN  /\ (pos >= end_pos \/ pos = 0) => last.res = <<>>
            /\ pos >= 1 => last.res = Walk(pos, end_pos)
            /\ (pos = 8 /\ end_pos = 15) => last.res = <<<<10, 9>>, <<14, 13>>, <<15, 7>>>>

\* C28: the leaf hash verify computes for (elem, pos) with pos <= mmr_size is
\* hash_with_index(pos - 1, H(encode(elem))): the construction, over the same
\* byte encoding of elem, that append used for the hash it stored at index
\* pos - 1.  With an empty path that hash is what verify compares root with.
C28_VerifyLeafHash ==
    (/\ last.op = "verify"
     /\ last.args[1].path = <<>>
     /\ last.args[4] >= 1
     /\ last.args[4] <= last.args[1].mmr_size) =>
        LET root == last.args[2]
            elem == last.args[3]
            pos == last.args[4]
            hash == hash_with_index(pos - 1, hash_vec(encode(elem)))
        IN  /\ IF root = hash THEN last.res.ok /\ last.res.val
               ELSE ~last.res.ok /\ last.res.err = InvalidRootHash(hash, root)
            /\ (grown /\ pos \in LeafPositions /\ elem = leaves[pos]) =>
                   hash = mmr.store.hashes[pos]

\* C29: verification binds an element to its position: if verify(root, elem,
\* pos) returns Ok(true) for root = root() of an MMR grown from empty by appends,
\* for any MerkleProof whatever its mmr_size and path (the default proof {0, []}
\* included), then pos is a leaf position <= size of that MMR and elem is the
\* element that was appended at pos.
C29_VerifyBinds ==
    (/\ grown
     /\ last.op = "verify"
     /\ mmr_root(mmr).ok
     /\ last.args[2] = mmr_root(mmr).val
     /\ last.res.ok
     /\ last.res.val) =>
        /\ last.args[4] \in LeafPositions
        /\ last.args[4] <= mmr.size
        /\ last.args[3] = leaves[last.args[4]]

\* the variants of error.rs
ErrorKinds ==
    {"ExpectingLeafNode", "InvalidNodeHash", "InvalidNodeHeight", "InvalidRootHash",
     "MissingRootNode", "Store"}

\* C30: verify is total: for every input, pos = 0, pos > mmr_size, mmr_size = 0
\* or unstable and a path shorter or longer than a genuine one included, it
\* returns Ok(true) or an Err of the crate, without underflowing in pos - 1 (no
\* panic, no leaf hashed with the index u64::MAX).
C30_VerifyTotal ==
    last.op = "verify" =>
        /\ IF last.res.ok THEN last.res.val ELSE last.res.err.kind \in ErrorKinds
        /\ (~last.res.ok /\ last.res.err.kind = "InvalidRootHash"
                /\ last.args[1].path = <<>>) =>
               last.res.err.a # hash_with_index_max(hash_vec(last.args[3]))

====
